---- MODULE Spec2Model ----
(***************************************************************************)
(* The poll worker of Samenal-sys/polldata.  Every request runs the same   *)
(* handler: (relational variants) create the tables, fetch question.txt    *)
(* and options.txt, fingerprint them, read the stored metadata, reset the  *)
(* store when the fingerprints differ, then serve GET /poll or POST /vote. *)
(* Three variants of the handler exist:                                    *)
(*   "kv"   src/unnamed/part_000  (key/value namespace KV_POLLS)           *)
(*   "d1"   src/unnamed/part_001  (relational database DB, TypeScript)     *)
(*   "d1js" src/src/index.ts      (relational database DB, JavaScript)     *)
(* Every await on the store or on the poll source is one step of a         *)
(* request; the steps of concurrently running requests interleave freely.  *)
(***************************************************************************)
EXTENDS Integers, Sequences, FiniteSets, TLC

(* ------------------------------ bounds -------------------------------- *)

\* Number of successive versions of the external poll content.
MaxVer == 3

\* Number of entries the history of a sequential run keeps.
MaxLog == 4

\* Request slots (requests that can be in flight at the same time).
Reqs == {"r1", "r2"}

Variants == {"kv", "d1", "d1js"}

(* ------------------------- external poll content ---------------------- *)

\* question.txt of content version v (the whole body is the question).
QuestionText(v) ==
  IF v <= 3 THEN "Pick a color?" ELSE "Pick a colour?"

\* options.txt of content version v, as the lines that split('\n') yields.
OptionsLines(v) ==
  CASE v % 3 = 1 -> <<"Red", "Blue", "Green">>
    [] v % 3 = 2 -> <<"Red", "", "Blue", "">>
    [] OTHER     -> <<"", " ">>

\* opt.trim() is the empty string (falsy) for a whitespace-only line.
TrimIsEmpty(line) == line \in {"", " ", "\t", "  "}

\* (text).split('\n').filter(opt => opt.trim())
RECURSIVE FilterBlank(_)
FilterBlank(lines) ==
  IF lines = <<>> THEN <<>>
  ELSE IF TrimIsEmpty(Head(lines)) THEN FilterBlank(Tail(lines))
       ELSE <<Head(lines)>> \o FilterBlank(Tail(lines))

\* The parsed options of every content version (version 0: nothing fetched).
OptionsTable == [v \in 0..MaxVer |-> IF v = 0 THEN <<>> ELSE FilterBlank(OptionsLines(v))]

\* The in-memory options of a request that fetched version v.
Options(v) == OptionsTable[v]

\* options.includes(x)
Includes(opts, x) == \E i \in 1..Len(opts) : opts[i] = x

\* options.join('\n')
RECURSIVE Join(_)
Join(opts) ==
  IF opts = <<>> THEN ""
  ELSE IF Len(opts) = 1 THEN opts[1]
       ELSE opts[1] \o "\n" \o Join(Tail(opts))

\* hash(str): the SHA-256 digest in hex; collision-free on the strings used,
\* so a digest is represented by the tagged string it is the digest of.
Hash(str) == <<"sha256", str>>

\* The two digests of every content version.
HashTable ==
  [v \in 1..MaxVer |->
     [question_hash |-> Hash(QuestionText(v)),
      options_hash |-> Hash(Join(Options(v)))]]

\* The fingerprint pair a request that fetched version v computes.
QuestionHash(v) == HashTable[v].question_hash
OptionsHash(v) == HashTable[v].options_hash
FingerprintPair(v) == HashTable[v]

(* --------------------------- store operations ------------------------- *)

\* A voter identity is the list of its ':'-free segments, so that the key
\* name `votes:${fingerprint}` and its split(':') are computed, not assumed:
\* "v1" is <<"v1">>, "Red:x" is <<"Red", "x">>, the empty string is <<"">>.
EmptyString == <<"">>

\* `votes:${fingerprint}`
VoteKey(fingerprint) == <<"votes">> \o fingerprint

\* key.name.split(':')[1]
KeySplit1(key) == key[2]

\* env.KV_POLLS.get('metadata'): the stored JSON value, or null (no element).
KVGetMetadata(ms) == ms

\* env.KV_POLLS.put('metadata', JSON.stringify({question_hash, options_hash}))
KVPutMetadata(ms, pair) == {pair}

\* env.KV_POLLS.list({ prefix: 'votes:' }): the key names.
KVListVotes(vs) == {VoteKey(e.fingerprint) : e \in vs}

\* env.KV_POLLS.delete(key.name)
KVDelete(vs, key) == {e \in vs : VoteKey(e.fingerprint) # key}

\* A get under a mistyped key prefix (`vote:${fingerprint}`).
KVGetVoteWrongPrefix(vs, fingerprint) ==
  {e.vote : e \in {x \in vs : VoteKey(x.fingerprint) = <<"vote">> \o fingerprint}}

\* env.KV_POLLS.get(`votes:${fingerprint}`): the stored values (none = null).
KVGetVote(vs, fingerprint) ==
  {e.vote : e \in {x \in vs : VoteKey(x.fingerprint) = VoteKey(fingerprint)}}

\* A put that adds the value beside the one the key already holds.
KVPutVoteKeepsOld(vs, fingerprint, vote, v) ==
  vs \cup {[fingerprint |-> fingerprint, vote |-> vote, ver |-> v]}

\* env.KV_POLLS.put(`votes:${fingerprint}`, vote): a put replaces the value.
KVPutVote(vs, fingerprint, vote, v) ==
  {e \in vs : VoteKey(e.fingerprint) # VoteKey(fingerprint)}
    \cup {[fingerprint |-> fingerprint, vote |-> vote, ver |-> v]}

\* DELETE FROM votes
D1DeleteVotes(vs) == {}

\* A metadata delete that removes nothing.
D1DeleteMetadataKeeps(ms) == ms

\* DELETE FROM poll_metadata
D1DeleteMetadata(ms) == {}

\* SELECT * FROM poll_metadata WHERE id = 1   (.first(): a row or null)
D1SelectMetadata(ms) == {m \in ms : m.id = 1}

\* poll_metadata.id is the PRIMARY KEY: an INSERT of an existing id throws.
D1InsertMetadataConflict(ms) == \E m \in ms : m.id = 1

\* INSERT INTO poll_metadata (id, question_hash, options_hash) VALUES (1, ?, ?)
D1InsertMetadata(ms, pair) ==
  ms \cup {[id |-> 1, question_hash |-> pair.question_hash,
            options_hash |-> pair.options_hash]}

\* SELECT vote FROM votes WHERE fingerprint = ?   (.first(): a row or null)
D1SelectVote(vs, fingerprint) ==
  {e.vote : e \in {x \in vs : x.fingerprint = fingerprint}}

\* votes.fingerprint is the PRIMARY KEY: an INSERT of an existing one throws.
D1InsertVoteConflict(vs, fingerprint) ==
  \E e \in vs : e.fingerprint = fingerprint

\* INSERT INTO votes (fingerprint, vote) VALUES (?, ?)
D1InsertVote(vs, fingerprint, vote, v) ==
  vs \cup {[fingerprint |-> fingerprint, vote |-> vote, ver |-> v]}

\* The option names of a list, as a set.
OptionSet(opts) == {opts[i] : i \in 1..Len(opts)}

\* results = {}; options.forEach(opt => (results[opt] = 0));
\* SELECT vote, COUNT(*) as count FROM votes GROUP BY vote, then
\* if (options.includes(row.vote)) results[row.vote] = row.count
D1Tally(vs, opts) ==
  LET groups == {[vote |-> o, count |-> Cardinality({e \in vs : e.vote = o})]
                   : o \in {e.vote : e \in vs}}
  IN [o \in OptionSet(opts) |->
        IF \E g \in groups : g.vote = o
        THEN (CHOOSE g \in groups : g.vote = o).count
        ELSE 0]

\* results = {}; options.forEach(opt => (results[opt] = 0));
\* for every listed key: voteValue = key.name.split(':')[1];
\* if (options.includes(voteValue)) results[voteValue] += 1
KVTally(vs, opts) ==
  LET keys == KVListVotes(vs)
  IN [o \in OptionSet(opts) |->
        Cardinality({k \in keys : KeySplit1(k) = o})]

\* The deletes of the listed keys, all applied.
RECURSIVE KVDeleteAll(_, _)
KVDeleteAll(vs, keys) ==
  IF keys = {} THEN vs
  ELSE LET k == CHOOSE x \in keys : TRUE
       IN KVDeleteAll(KVDelete(vs, k), keys \ {k})

\* The reset block of the key/value variant, run alone on store s:
\* list, delete every listed key, put the metadata.
KVResetFor(s, pair) ==
  [votes |-> KVDeleteAll(s.votes, KVListVotes(s.votes)),
   meta |-> KVPutMetadata(s.meta, pair)]

\* The reset block of the relational variants, run alone on store s:
\* DELETE FROM votes, DELETE FROM poll_metadata, INSERT (which throws on a
\* primary-key conflict and leaves the table as it is).
D1ResetFor(s, pair) ==
  LET vs == D1DeleteVotes(s.votes)
      ms == D1DeleteMetadata(s.meta)
  IN [votes |-> vs,
      meta |-> IF D1InsertMetadataConflict(ms) THEN ms
               ELSE D1InsertMetadata(ms, pair)]

(* ------------------------------- state -------------------------------- *)

VARIABLES
  variant,  \* which of the three handlers is deployed
  ver,      \* the latest version of the external poll content a fetch has read
  votes,    \* the vote ledger: the votes table / the 'votes:' keys
  meta,     \* the poll_metadata table / the 'metadata' key
  req,      \* per request slot: position in the handler and its locals;
            \*   calls: the request has called the store (its first call is
            \*          the schema statements or the metadata read),
            \*   reset: the request took the reset branch,
            \*   wiped: its unfinished reset has removed a stored record,
            \*   purged: its reset has deleted a Vote record (kept while the
            \*           request handles a vote, and when it is rejected),
            \*   ins: what its write of the vote met ("new", "replaced", "conflict")
  log       \* history of a sequential run: the answered votes, in order

vars == <<variant, ver, votes, meta, req, log>>

IsD1 == variant \in {"d1", "d1js"}

\* The voter identities and option names that requests carry.
Voters == {<<"v1">>, <<"Red">>}
Choices == {"Red", "Green"}

\* request.json() threw.
Malformed == [json |-> FALSE, fingerprint |-> EmptyString, vote |-> ""]

Bodies ==
  {Malformed}
    \cup {[json |-> TRUE, fingerprint |-> f, vote |-> o] : f \in Voters, o \in Choices}
    \cup {[json |-> TRUE, fingerprint |-> EmptyString, vote |-> "Red"],
          [json |-> TRUE, fingerprint |-> <<"v1">>, vote |-> ""]}

\* url.pathname and request.method: GET /poll, POST /vote, anything else.
Routes == {"poll", "vote", "other"}

NoResp == [status |-> 0, kind |-> "none"]

Idle ==
  [pc |-> "idle", route |-> "other", body |-> Malformed, fver |-> 0,
   calls |-> FALSE, reset |-> FALSE, wiped |-> FALSE, purged |-> FALSE, keys |-> {}, ins |-> "none", resp |-> NoResp]

\* new Response(JSON.stringify({ error: msg + e.message }), { status })
ErrorResp(status, msg, cause) ==
  [status |-> status, kind |-> "error", error |-> msg, cause |-> cause]

\* The request ends with `resp`.
Finish(r, resp) ==
  req' = [req EXCEPT ![r].pc = "done", ![r].resp = resp,
                     ![r].purged = @ /\ resp.status = 400]

Goto(r, pc) == req' = [req EXCEPT ![r].pc = pc]

\* The stored fingerprint pair(s), without the relational row's id.
StoredPairs ==
  {[question_hash |-> m.question_hash, options_hash |-> m.options_hash] : m \in meta}

Init ==
  /\ variant \in Variants
  /\ ver = 1
  /\ votes = {}
  /\ meta = {}
  /\ req = [r \in Reqs |-> Idle]
  /\ log = <<>>

(* ------------------------------ the handler --------------------------- *)

\* A request arrives.  Its path, method and body are drawn where the
\* handler first branches on them (Route): nothing before reads them.
Start(r) ==
  /\ req[r].pc = "idle"
  /\ Goto(r, IF IsD1 THEN "schema" ELSE "fetch")
  /\ UNCHANGED <<variant, ver, votes, meta, log>>

\* CREATE TABLE IF NOT EXISTS votes / poll_metadata (relational variants).
InitSchema(r) ==
  /\ req[r].pc = "schema"
  /\ req' = [req EXCEPT ![r].pc = "fetch", ![r].calls = TRUE]
  /\ UNCHANGED <<variant, ver, votes, meta, log>>

\* fetch question.txt and options.txt, split and filter the options.  The
\* poll source publishes its versions in order and the fetch reads the one
\* published when it is made: the version last read, or a later one.  The
\* two documents are read as one published version.
FetchPoll(r) ==
  /\ req[r].pc = "fetch"
  /\ \/ \E v \in ver..MaxVer :
          /\ ver' = v
          /\ req' = [req EXCEPT
               ![r].pc = IF Options(v) = <<>> /\ variant # "d1js"
                         THEN "done" ELSE "meta",
               ![r].fver = v,
               ![r].resp = IF Options(v) = <<>> /\ variant # "d1js"
                           THEN ErrorResp(400, "No valid options found", "none")
                           ELSE NoResp]
     \/ /\ Finish(r, ErrorResp(500, "Failed to fetch poll data", "none"))
        /\ UNCHANGED ver
     \/ /\ Finish(r, ErrorResp(500, "Failed to fetch files", "transport"))
        /\ UNCHANGED ver
  /\ UNCHANGED <<variant, votes, meta, log>>

\* A comparison that forgets the options fingerprint.
NeedsResetQuestionOnly(stored, v) ==
  \/ stored = {}
  \/ \E m \in stored : m.question_hash # QuestionHash(v)

\* !metadata || metadata.question_hash !== questionHash
\*           || metadata.options_hash !== optionsHash
NeedsReset(stored, v) ==
  \/ stored = {}
  \/ \E m \in stored : \/ m.question_hash # QuestionHash(v)
                       \/ m.options_hash # OptionsHash(v)

\* Read the stored metadata and compare it with the computed fingerprints.
ReadMetadata(r) ==
  /\ req[r].pc = "meta"
  /\ LET stored == IF IsD1 THEN D1SelectMetadata(meta) ELSE KVGetMetadata(meta)
     IN IF NeedsReset(stored, req[r].fver)
        THEN req' = [req EXCEPT ![r].pc = IF IsD1 THEN "reset_votes" ELSE "reset_list",
                                ![r].calls = TRUE, ![r].reset = TRUE]
        ELSE req' = [req EXCEPT ![r].pc = "route", ![r].calls = TRUE]
  /\ UNCHANGED <<variant, ver, votes, meta, log>>

\* await env.DB.exec('DELETE FROM votes')
ResetDeleteVotes(r) ==
  /\ req[r].pc = "reset_votes"
  /\ votes' = D1DeleteVotes(votes)
  /\ req' = [req EXCEPT ![r].pc = "reset_meta", ![r].wiped = (votes' # votes),
                        ![r].purged = (votes' # votes)]
  /\ UNCHANGED <<variant, ver, meta, log>>

\* await env.DB.exec('DELETE FROM poll_metadata')
ResetDeleteMetadata(r) ==
  /\ req[r].pc = "reset_meta"
  /\ meta' = D1DeleteMetadata(meta)
  /\ req' = [req EXCEPT ![r].pc = "reset_insert", ![r].wiped = @ \/ (meta' # meta)]
  /\ UNCHANGED <<variant, ver, votes, log>>

\* INSERT INTO poll_metadata ... .run(); a primary-key conflict throws and
\* is caught as 'Data reset failed'.
ResetInsertMetadata(r) ==
  /\ req[r].pc = "reset_insert"
  /\ IF D1InsertMetadataConflict(meta)
     THEN /\ req' = [req EXCEPT
                    ![r].pc = "done", ![r].wiped = FALSE, ![r].purged = FALSE,
                    ![r].resp = ErrorResp(500, "Data reset failed", "constraint")]
          /\ UNCHANGED meta
     ELSE /\ meta' = D1InsertMetadata(meta, FingerprintPair(req[r].fver))
          /\ req' = [req EXCEPT ![r].pc = "route", ![r].wiped = FALSE]
  /\ UNCHANGED <<variant, ver, votes, log>>

\* const voteKeys = await env.KV_POLLS.list({ prefix: 'votes:' })
ResetList(r) ==
  /\ req[r].pc = "reset_list"
  /\ LET keys == KVListVotes(votes)
     IN req' = [req EXCEPT ![r].pc = IF keys = {} THEN "reset_put" ELSE "reset_delete",
                           ![r].keys = keys]
  /\ UNCHANGED <<variant, ver, votes, meta, log>>

\* One of the deletes of Promise.all(deletePromises) takes effect.
ResetDeleteKey(r) ==
  /\ req[r].pc = "reset_delete"
  /\ \E k \in req[r].keys :
       /\ votes' = KVDelete(votes, k)
       /\ req' = [req EXCEPT ![r].keys = @ \ {k},
                             ![r].wiped = @ \/ (votes' # votes),
                             ![r].purged = @ \/ (votes' # votes),
                             ![r].pc = IF req[r].keys = {k} THEN "reset_put"
                                       ELSE "reset_delete"]
  /\ UNCHANGED <<variant, ver, meta, log>>

\* await env.KV_POLLS.put('metadata', ...)
ResetPutMetadata(r) ==
  /\ req[r].pc = "reset_put"
  /\ meta' = KVPutMetadata(meta, FingerprintPair(req[r].fver))
  /\ req' = [req EXCEPT ![r].pc = "route", ![r].wiped = FALSE]
  /\ UNCHANGED <<variant, ver, votes, log>>

\* if (!fingerprint || !vote || !options.includes(vote))
InvalidVote(body, opts) ==
  \/ body.fingerprint = EmptyString
  \/ body.vote = ""
  \/ ~Includes(opts, body.vote)

\* url.pathname / request.method, then for POST /vote: await request.json()
\* and the validation of the vote.
Route(r) ==
  /\ req[r].pc = "route"
  /\ LET opts == Options(req[r].fver)
     IN \E route \in Routes, body \in Bodies :
          /\ route # "vote" => body = Malformed
          /\ req' = [req EXCEPT
               ![r].route = route,
               ![r].body = body,
               ![r].purged = @ /\ route = "vote",
               ![r].pc = IF route = "vote" /\ body.json /\ ~InvalidVote(body, opts)
                         THEN "check" ELSE "done",
               ![r].resp =
                 CASE route = "poll" ->
                        [status |-> 200, kind |-> "poll",
                         question |-> QuestionText(req[r].fver), options |-> opts]
                   [] route = "other" ->
                        [status |-> 404, kind |-> "not_found"]
                   [] route = "vote" /\ ~body.json ->
                        ErrorResp(400, "Invalid JSON", "none")
                   [] route = "vote" /\ body.json /\ InvalidVote(body, opts) ->
                        ErrorResp(400, "Invalid vote or fingerprint", "none")
                   [] OTHER -> NoResp]
  /\ UNCHANGED <<variant, ver, votes, meta, log>>

\* The truthiness test on the row or value the existence check read:
\* part_000 `existingVote`, part_001 `existingVote && existingVote.vote`,
\* index.ts `existingVote`.
AlreadyVoted(vs, fingerprint) ==
  CASE variant = "kv"   -> \E x \in KVGetVote(vs, fingerprint) : x # ""
    [] variant = "d1"   -> \E x \in D1SelectVote(vs, fingerprint) : x # ""
    [] OTHER            -> D1SelectVote(vs, fingerprint) # {}

\* A variant of the existence check that stores the vote of the request
\* over the one it found before it rejects the request.
CheckVoteOverwrites(r) ==
  /\ req[r].pc = "check"
  /\ IF AlreadyVoted(votes, req[r].body.fingerprint)
     THEN /\ votes' = KVPutVote(votes, req[r].body.fingerprint,
                                req[r].body.vote, req[r].fver)
          /\ Finish(r, ErrorResp(400, "You have already voted", "none"))
     ELSE /\ Goto(r, "insert")
          /\ UNCHANGED votes
  /\ UNCHANGED <<variant, ver, meta, log>>

\* Check if fingerprint already voted.
CheckVote(r) ==
  /\ req[r].pc = "check"
  /\ IF AlreadyVoted(votes, req[r].body.fingerprint)
     THEN Finish(r, ErrorResp(400, "You have already voted", "none"))
     ELSE Goto(r, "insert")
  /\ UNCHANGED <<variant, ver, votes, meta, log>>

\* A variant of the write of the vote that, when the statement is refused,
\* goes back to the existence check instead of answering.
RecordVoteRetries(r) ==
  /\ req[r].pc = "insert"
  /\ LET b == req[r].body
     IN IF D1InsertVoteConflict(votes, b.fingerprint)
        THEN /\ Goto(r, "check")
             /\ UNCHANGED votes
        ELSE /\ votes' = D1InsertVote(votes, b.fingerprint, b.vote, req[r].fver)
             /\ req' = [req EXCEPT ![r].pc = "tally", ![r].ins = "new"]
  /\ UNCHANGED <<variant, ver, meta, log>>

\* Record vote: a KV put, or an INSERT whose primary-key conflict throws and
\* is caught as 'Vote recording failed'.
RecordVote(r) ==
  /\ req[r].pc = "insert"
  /\ LET b == req[r].body
         fresh == \A e \in votes : e.fingerprint # b.fingerprint
     IN IF IsD1
        THEN IF D1InsertVoteConflict(votes, b.fingerprint)
             THEN /\ req' = [req EXCEPT
                            ![r].pc = "done", ![r].ins = "conflict", ![r].purged = FALSE,
                            ![r].resp = ErrorResp(500, "Vote recording failed", "constraint")]
                  /\ UNCHANGED votes
             ELSE /\ votes' = D1InsertVote(votes, b.fingerprint, b.vote, req[r].fver)
                  /\ req' = [req EXCEPT ![r].pc = "tally", ![r].ins = "new"]
        ELSE /\ votes' = KVPutVote(votes, b.fingerprint, b.vote, req[r].fver)
             /\ req' = [req EXCEPT ![r].pc = "tally",
                                   ![r].ins = IF fresh THEN "new" ELSE "replaced"]
  /\ UNCHANGED <<variant, ver, meta, log>>

\* The tally the variant computes over the request's options.
TallyOf(vs, opts) == IF IsD1 THEN D1Tally(vs, opts) ELSE KVTally(vs, opts)

\* Get results and answer { results }.
Tally(r) ==
  /\ req[r].pc = "tally"
  /\ Finish(r, [status |-> 200, kind |-> "results",
                results |-> TallyOf(votes, Options(req[r].fver))])
  /\ UNCHANGED <<variant, ver, votes, meta, log>>

\* The message of the catch block around the store call a request is at.
CatchMessage(pc) ==
  CASE pc = "schema" -> "Database initialization failed"
    [] pc = "meta"   -> IF IsD1 THEN "Metadata query failed" ELSE "Metadata fetch failed"
    [] pc = "check"  -> "Vote check failed"
    [] pc = "insert" -> "Vote recording failed"
    [] pc = "tally"  -> "Results fetch failed"
    [] OTHER         -> "Data reset failed"

StorePcs ==
  {"schema", "meta", "reset_votes", "reset_meta", "reset_insert",
   "reset_list", "reset_delete", "reset_put", "check", "insert", "tally"}

\* A variant of the failure of a store call that, when the tally read
\* fails, takes the vote the request wrote out of the ledger again.
StoreFailsUndoesVote(r) ==
  /\ req[r].pc \in StorePcs
  /\ votes' = IF req[r].pc = "tally"
              THEN {e \in votes : e.fingerprint # req[r].body.fingerprint}
              ELSE votes
  /\ req' = [req EXCEPT ![r].pc = "done", ![r].keys = {}, ![r].wiped = FALSE,
                        ![r].calls = TRUE,
                        ![r].purged = FALSE,
                        ![r].resp = ErrorResp(500, CatchMessage(req[r].pc), "unavailable")]
  /\ UNCHANGED <<variant, ver, meta, log>>

\* The store call a request awaits throws: the catch block answers 500 and
\* nothing is retried.  When one delete of Promise.all rejects, the other
\* deletes were already issued: any of them may still take effect.
StoreFails(r) ==
  /\ req[r].pc \in StorePcs
  /\ IF req[r].pc = "reset_delete"
     THEN \E D \in SUBSET req[r].keys :
            /\ D # req[r].keys
            /\ votes' = {e \in votes : VoteKey(e.fingerprint) \notin D}
     ELSE UNCHANGED votes
  /\ req' = [req EXCEPT ![r].pc = "done", ![r].keys = {}, ![r].wiped = FALSE,
                        ![r].calls = TRUE,
                        ![r].purged = FALSE,
                        ![r].resp = ErrorResp(500, CatchMessage(req[r].pc), "unavailable")]
  /\ UNCHANGED <<variant, ver, meta, log>>

\* The response has been delivered; the slot takes the next request.
Retire(r) ==
  /\ req[r].pc = "done"
  /\ req' = [req EXCEPT ![r] = Idle]
  /\ UNCHANGED <<variant, ver, votes, meta, log>>

Step(r) ==
  \/ InitSchema(r) \/ FetchPoll(r) \/ ReadMetadata(r)
  \/ ResetDeleteVotes(r) \/ ResetDeleteMetadata(r) \/ ResetInsertMetadata(r)
  \/ ResetList(r) \/ ResetDeleteKey(r) \/ ResetPutMetadata(r)
  \/ Route(r) \/ CheckVote(r) \/ RecordVote(r) \/ Tally(r)
  \/ StoreFails(r)

Next == \E r \in Reqs : Start(r) \/ Step(r) \/ Retire(r)

\* Requests are handled concurrently, with no coordination between them.
Spec == Init /\ [][Next]_vars

(* -------------------------- one request at a time --------------------- *)

\* One request at a time needs one slot.
SeqReq == CHOOSE r \in Reqs : TRUE

\* A request arrives when no other request is being handled.
StartSeq ==
  /\ \A q \in Reqs : req[q].pc = "idle"
  /\ Start(SeqReq)

\* The request got past the validation of its vote.
ValidVote(q) ==
  /\ q.route = "vote"
  /\ q.body.json
  /\ q.fver # 0
  /\ ~InvalidVote(q.body, Options(q.fver))

\* What the history keeps of an answered request: the voter, the option
\* named, the content version it fetched and how it ended.
LogEntry(q) ==
  [fingerprint |-> q.body.fingerprint,
   vote |-> q.body.vote,
   fver |-> q.fver,
   outcome |-> CASE q.resp.kind = "results" -> "success"
                 [] q.resp.kind = "error" /\ q.resp.cause = "unavailable" -> "storage_failure"
                 [] q.resp.kind = "error" /\ q.resp.error = "You have already voted" -> "duplicate"
                 [] OTHER -> "other"]

\* The history keeps the votes that passed validation and every request a
\* store failure ended, until the first store failure.
Logged(q) ==
  /\ \A i \in 1..Len(log) : log[i].outcome # "storage_failure"
  /\ \/ q.pc = "done" /\ ValidVote(q)
     \/ q.resp.kind = "error" /\ q.resp.cause = "unavailable"

\* The history with the entry e added.  It holds the votes answered under
\* one content version, at most MaxLog of them: a vote that fetched another
\* version starts it again, and a store failure ends it.
Record(e) ==
  CASE e.outcome = "storage_failure" -> <<e>>
    [] e.outcome # "storage_failure" /\ log # <<>> /\ log[1].fver # e.fver -> <<e>>
    [] OTHER -> IF Len(log) < MaxLog THEN Append(log, e) ELSE log

\* The response has been delivered and is added to the history.
RetireSeq ==
  /\ req[SeqReq].pc = "done"
  /\ req' = [req EXCEPT ![SeqReq] = Idle]
  /\ log' = IF Logged(req[SeqReq]) THEN Record(LogEntry(req[SeqReq])) ELSE log
  /\ UNCHANGED <<variant, ver, votes, meta>>

NextSeq == StartSeq \/ Step(SeqReq) \/ RetireSeq

\* Requests are handled one after another.
SpecSeq == Init /\ [][NextSeq]_vars

(* ------------------------- vocabulary of the claims ------------------- *)

Answered(r) == req[r].pc = "done"

\* The request ended in the catch block of a store call that was unavailable.
StoreFailure(r) ==
  Answered(r) /\ req[r].resp.kind = "error" /\ req[r].resp.cause = "unavailable"

Success(r) == Answered(r) /\ req[r].resp.kind = "results"

RejectedDuplicate(r) ==
  /\ Answered(r)
  /\ req[r].resp = ErrorResp(400, "You have already voted", "none")

\* The request passed the existence check and its write reached the store.
Wrote(r) == req[r].ins # "none"

\* The Vote record the request writes.
OwnVote(r) ==
  [fingerprint |-> req[r].body.fingerprint, vote |-> req[r].body.vote,
   ver |-> req[r].fver]

ResetPcs ==
  {"reset_votes", "reset_meta", "reset_insert", "reset_list", "reset_delete", "reset_put"}

NoResetInProgress == \A r \in Reqs : req[r].pc \notin ResetPcs

\* The request's reset has removed a stored record and has not yet
\* installed its metadata.
ResetPartlyApplied(r) == req[r].pc \in ResetPcs /\ req[r].wiped

\* The request is past its reset stage.
PastReset(r) ==
  \/ req[r].pc \in {"route", "check", "insert", "tally"}
  \/ Answered(r) /\ req[r].resp.kind # "error"
  \/ Answered(r) /\ req[r].resp.kind = "error"
       /\ req[r].resp.error \in {"Invalid JSON", "Invalid vote or fingerprint",
                                 "Vote check failed", "You have already voted",
                                 "Vote recording failed", "Results fetch failed"}

(* -------------------------------- claims ------------------------------ *)

\* C1: two POST /vote requests of one voter, on the same poll content, that
\* both passed the existence check and whose writes met each other in the
\* store (no store call being unavailable): exactly one ends in success and
\* the other is rejected with 400 'You have already voted'.
C1_DuplicateRaceRejected ==
  \A r1, r2 \in Reqs :
    ( /\ r1 # r2
      /\ Answered(r1) /\ Answered(r2)
      /\ ValidVote(req[r1]) /\ ValidVote(req[r2])
      /\ req[r1].body.fingerprint = req[r2].body.fingerprint
      /\ req[r1].fver = req[r2].fver
      /\ Wrote(r1) /\ Wrote(r2)
      /\ req[r2].ins # "new"
      /\ ~StoreFailure(r1) /\ ~StoreFailure(r2) )
    => Success(r1) /\ RejectedDuplicate(r2)

\* C2 (I1): whenever no reset is in progress, every persisted vote was
\* inserted by a request whose content version has exactly the stored
\* fingerprint pair.
C2_VotesMatchMetadata ==
  NoResetInProgress =>
    \A e \in votes : StoredPairs = {FingerprintPair(e.ver)}

\* A request reads the store in this step (metadata read, existence check
\* or tally).
ReadsStore(q) ==
  /\ req[q].pc \in {"meta", "check", "tally"}
  /\ req'[q].pc # req[q].pc
  /\ ~(req'[q].pc = "done" /\ req'[q].resp.kind = "error"
         /\ req'[q].resp.cause = "unavailable")

\* A request installs its metadata in this step, completing its reset.
InstallsMetadata(r) ==
  req[r].pc \in {"reset_insert", "reset_put"} /\ req'[r].pc = "route"

\* C3: the reset is atomic: no request reads the store while another
\* request's reset is partly applied, and when a reset installs its metadata
\* no vote written between its steps is in the ledger.
C3_ResetAtomic ==
  [][ /\ \A q \in Reqs : ReadsStore(q) =>
            \A r \in Reqs \ {q} : ~ResetPartlyApplied(r)
      /\ \A r \in Reqs : InstallsMetadata(r) => votes' = {} ]_vars

\* C4: two requests that fetched the same content and both took the reset
\* branch, once both are through it (no store call being unavailable): no
\* reset ended in an error, exactly one metadata record holds the new pair,
\* and the ledger holds no vote but those the two wrote afterwards.
C4_ResetRaceSafe ==
  \A r1, r2 \in Reqs :
    ( /\ r1 # r2
      /\ req[r1].reset /\ req[r2].reset
      /\ req[r1].fver = req[r2].fver
      /\ ~StoreFailure(r1) /\ ~StoreFailure(r2)
      /\ req[r1].pc \notin ResetPcs /\ req[r2].pc \notin ResetPcs )
    => /\ PastReset(r1) /\ PastReset(r2)
       /\ Cardinality(meta) = 1
       /\ StoredPairs = {FingerprintPair(req[r1].fver)}
       /\ \A e \in votes : \E r \in {r1, r2} : Wrote(r) /\ e = OwnVote(r)

\* C5 (I2): the ledger never holds two Vote records of one voter identity.
C5_OneVotePerVoter ==
  \A e1, e2 \in votes : e1.fingerprint = e2.fingerprint => e1 = e2

\* C5 witness: a second write for a voter whose record is in the ledger
\* has reached the store (and replaced the value, or been refused).
C5_Witness ==
  \E r \in Reqs :
    /\ req[r].ins \in {"replaced", "conflict"}
    /\ \E e \in votes : e.fingerprint = req[r].body.fingerprint

\* C6 (P3): in a run of one request at a time with no store failure: of the
\* vote requests with valid input that fetched the same content, one after
\* another, the first of a voter ends in success and every later one of that
\* voter is rejected as duplicate, whatever option it names.
C6_SequentialDedup ==
  \A j \in 1..Len(log) :
    ( \A i \in 1..j : /\ log[i].outcome # "storage_failure"
                      /\ log[i].fver = log[j].fver )
    => IF \E i \in 1..(j - 1) : log[i].fingerprint = log[j].fingerprint
       THEN log[j].outcome = "duplicate"
       ELSE log[j].outcome = "success"

\* C6 witness: a voter voted three times in a row, naming another option the
\* second time: success, duplicate, duplicate.
C6_Witness ==
  /\ Len(log) >= 3
  /\ \A i \in 1..3 : log[i].fingerprint = <<"v1">> /\ log[i].fver = 1
  /\ log[1].vote # log[2].vote
  /\ log[1].outcome = "success"
  /\ log[2].outcome = "duplicate"
  /\ log[3].outcome = "duplicate"

\* The number of persisted votes for each of the options, as the claim
\* counts them.
ExactCounts(vs, opts) ==
  [o \in OptionSet(opts) |-> Cardinality({e \in vs : e.vote = o})]

\* C7 (P4): the results of a successful vote submission have the request's
\* options as keys and, for each, the number of persisted votes for that
\* option at the moment the tally is read.
C7_TallyExact ==
  [][ \A r \in Reqs :
        (req[r].pc = "tally" /\ req'[r].pc = "done" /\ req'[r].resp.kind = "results")
        => req'[r].resp.results = ExactCounts(votes, Options(req[r].fver)) ]_vars

\* C8: every vote request that ends in success added a new Vote record: no
\* record of its voter was in the ledger when it wrote.
C8_SuccessAddsOneVote ==
  \A r \in Reqs : Success(r) => req[r].ins = "new"

\* The request got past the content fetch (it fetched the documents and was
\* not rejected for an empty option list).
GotPastFetch(r) ==
  /\ req[r].fver # 0
  /\ req[r].pc \notin {"idle", "schema", "fetch"}
  /\ ~(Answered(r) /\ req[r].resp = ErrorResp(400, "No valid options found", "none"))

\* When the request is answered: the stored metadata is the pair of the
\* content it fetched and, if it took the reset branch, every vote persisted
\* before it is gone.
C9_StoreAtResponse(r) ==
  /\ StoredPairs = {FingerprintPair(req[r].fver)}
  /\ req[r].reset => \A e \in votes : Wrote(r) /\ e = OwnVote(r)

\* The reset branch is taken exactly when the stored metadata is absent or
\* differs from the fetched pair; otherwise nothing is deleted or written.
C9_Branch ==
  \A r \in Reqs :
    (req[r].pc = "meta" /\ req'[r].pc # "meta" /\ ~StoreFailure(r)')
    => IF StoredPairs # {FingerprintPair(req[r].fver)}
       THEN req'[r].pc \in ResetPcs
       ELSE req'[r].pc = "route" /\ votes' = votes /\ meta' = meta

ResetFor(s, pair) == IF IsD1 THEN D1ResetFor(s, pair) ELSE KVResetFor(s, pair)

\* C10 (P2): from every store state the program reaches, the reset for a
\* fingerprint pair m run twice in a row leaves what one run leaves: an empty
\* ledger and metadata m.
C10_ResetIdempotent ==
  \A v \in 1..MaxVer :
    LET m == FingerprintPair(v)
        once == ResetFor([votes |-> votes, meta |-> meta], m)
        twice == ResetFor(once, m)
    IN /\ twice = once
       /\ once.votes = {}
       /\ Cardinality(once.meta) = 1
       /\ \A x \in once.meta : x.question_hash = m.question_hash
                               /\ x.options_hash = m.options_hash

\* C10 witness: two requests have both run the reset for the same pair on a
\* ledger that held a vote, the second after the first had installed its
\* metadata, and the store is the empty ledger with that pair.
C10_Witness ==
  \E r1, r2 \in Reqs :
    /\ r1 # r2
    /\ req[r1].reset /\ req[r2].reset
    /\ req[r1].fver = req[r2].fver
    /\ Success(r1)
    /\ req[r2].pc = "route"
    /\ votes = {}
    /\ StoredPairs = {FingerprintPair(req[r2].fver)}

\* The options text the request fetched yields no option once the blank
\* lines are discarded.
EmptyOptionsFetched(r) == req[r].fver # 0 /\ Options(req[r].fver) = <<>>

\* C11: a request whose fetched options text yields no option is rejected
\* with a client error before the stored metadata is read and takes no
\* reset, in every variant.
C11_EmptyOptionsRejected ==
  \A r \in Reqs :
    EmptyOptionsFetched(r) =>
      /\ Answered(r)
      /\ req[r].resp.status = 400
      /\ ~req[r].reset

\* The request ended because the question or the options text could not be
\* retrieved: a non-success status, or a transport error.
PollSourceFailed(r) ==
  /\ Answered(r)
  /\ req[r].resp \in {ErrorResp(500, "Failed to fetch poll data", "none"),
                      ErrorResp(500, "Failed to fetch files", "transport")}

\* C12: a request that ends because the poll source failed is answered 5xx
\* and has called the persistent store not once before that response.
C12_PollSourceFailureBeforeStore ==
  \A r \in Reqs :
    PollSourceFailed(r) => req[r].resp.status >= 500 /\ ~req[r].calls

\* The vote request was rejected for its input: request.json() threw, or the
\* voter identity or the option is empty, or the option is not offered.
RejectedInvalid(r) ==
  /\ Answered(r)
  /\ req[r].resp \in {ErrorResp(400, "Invalid JSON", "none"),
                      ErrorResp(400, "Invalid vote or fingerprint", "none")}

\* The step that rejects a vote request touches no Vote record: an invalid
\* input is answered from the validation, before the existence check, and a
\* duplicate from the existence check, which only reads.
C13_RejectionStep ==
  \A r \in Reqs :
    /\ (~Answered(r) /\ RejectedInvalid(r)')
         => req[r].pc = "route" /\ votes' = votes /\ meta' = meta
    /\ (~Answered(r) /\ RejectedDuplicate(r)')
         => req[r].pc = "check" /\ votes' = votes /\ meta' = meta

\* C13 as claimed: a vote request rejected for its input has read and
\* written no Vote record, and one rejected as duplicate has written none;
\* the rejection of invalid input comes before the existence check.
C13_RejectedVoteLeavesLedger ==
  /\ [](\A r \in Reqs : (RejectedInvalid(r) \/ RejectedDuplicate(r))
          => ~Wrote(r) /\ ~req[r].purged)
  /\ [][C13_RejectionStep]_vars

\* C13 amended: the same, for the part of the request that follows its
\* change detection (whose reset, when taken, deletes the votes).
C13_RejectedVoteLeavesLedgerAfterReset ==
  /\ [](\A r \in Reqs : (RejectedInvalid(r) \/ RejectedDuplicate(r)) => ~Wrote(r))
  /\ [][C13_RejectionStep]_vars

\* C13 witness: a vote request naming an option that is not offered has been
\* rejected as invalid while the ledger holds a vote of its voter, and
\* another request was rejected as duplicate.
C13_Witness ==
  \E r1, r2 \in Reqs :
    /\ req[r1].resp = ErrorResp(400, "Invalid vote or fingerprint", "none")
    /\ Answered(r1)
    /\ req[r1].body.vote # ""
    /\ \E e \in votes : e.fingerprint = req[r1].body.fingerprint
    /\ RejectedDuplicate(r2)

\* No poll-content change is pending: the stored metadata holds the
\* fingerprints of the current external content and no reset is in progress.
NoChangePending == NoResetInProgress /\ StoredPairs = {FingerprintPair(ver)}

\* C14 (I3): whenever no poll-content change is pending, the chosen option
\* of every persisted vote is one of the options of the current content.
C14_VotesNameCurrentOptions ==
  NoChangePending => \A e \in votes : Includes(Options(ver), e.vote)

\* C15: a persisted Vote record is never updated: in no step does the
\* record of a voter identity stay in the ledger with another chosen option.
C15_VoteNeverUpdated ==
  [][ \A e \in votes : \A f \in votes' :
        f.fingerprint = e.fingerprint => f.vote = e.vote ]_vars

\* A store call of the request failed: the store was unavailable, or the
\* statement was refused.
StoreCallFailed(r) ==
  /\ Answered(r)
  /\ req[r].resp.kind = "error"
  /\ req[r].resp.cause \in {"unavailable", "constraint"}

\* C16: when a store call of a request fails, the request is answered 5xx,
\* that step changes nothing in the store and the request leaves no partly
\* applied reset behind; once answered it makes no further store call.
C16_FailureLeavesNoPartialState ==
  [][ \A r \in Reqs :
        /\ (~Answered(r) /\ StoreCallFailed(r)')
             => /\ req'[r].resp.status >= 500
                /\ ~ResetPartlyApplied(r)
                /\ votes' = votes /\ meta' = meta
        /\ (StoreCallFailed(r) /\ req'[r] # req[r])
             => req'[r] = Idle /\ votes' = votes /\ meta' = meta ]_vars

(* ------------------------------ termination --------------------------- *)

\* Every fetch and every store call a request awaits returns in the end,
\* with a result or with a failure: each request keeps taking its steps.
\* Nothing is assumed about the arrival of requests.
Fairness == \A r \in Reqs : WF_vars(Step(r))

\* Termination is checked on the handling of two concurrent requests, from
\* their arrival to their responses.
NextLive == \E r \in Reqs : Start(r) \/ Step(r)

SpecLive == Init /\ [][NextLive]_vars /\ Fairness

\* The request is being handled and has not been answered.
InFlight(r) == req[r].pc \notin {"idle", "done"}

\* The terminal responses: poll data, vote success, not found, and the
\* errors (invalid input, duplicate, 5xx).
TerminalKinds == {"poll", "results", "not_found", "error"}

\* The order of the stages of a vote request: validation, existence check,
\* insert, tally; a stage is followed by the next one or by the response.
StageOrder ==
  {<<"route", "check">>, <<"check", "insert">>, <<"insert", "tally">>}
    \cup {<<s, "done">> : s \in {"route", "check", "insert", "tally"}}

\* A request has no response until it is answered, is answered once, and a
\* vote request passes through its stages in order.
C17_OneResponseInOrder ==
  \A r \in Reqs :
    /\ InFlight(r) => req[r].resp = NoResp
    /\ InFlight(r) /\ Answered(r)' => req'[r].resp.kind \in TerminalKinds
    /\ Answered(r) /\ req'[r] # req[r] => req'[r] = Idle
    /\ (req[r].pc \in {"route", "check", "insert", "tally"} /\ req'[r].pc # req[r].pc)
         => <<req[r].pc, req'[r].pc>> \in StageOrder

\* C17: every request that is being handled is eventually answered, with
\* one terminal response, whatever the other requests do; a vote request
\* passes through validation, existence check, insert and tally in that
\* order and stops at the first stage that rejects or fails.
C17_Terminates ==
  /\ \A r \in Reqs : InFlight(r) ~> Answered(r)
  /\ [][C17_OneResponseInOrder]_vars

\* C17 witness: a vote request has passed all four stages and is answered
\* with the results while the other request is still being handled.
C17_Witness ==
  \E r1, r2 \in Reqs :
    /\ Success(r1)
    /\ InFlight(r2)

\* The request deletes votes in this step, as part of its reset.
ResetDeletes(q) ==
  /\ req[q].pc \in ResetPcs
  /\ req'[q] # req[q]
  /\ votes' # votes

\* C18: the Vote record of a request that ended in success leaves the ledger
\* only through the reset of a request that fetched content with another
\* fingerprint pair: a reset to the same pair does not delete it.
C18_AcknowledgedVoteKept ==
  [][ \A r \in Reqs :
        ( /\ Success(r)
          /\ OwnVote(r) \in votes
          /\ \A e \in votes' : e.fingerprint # req[r].body.fingerprint )
        => \E q \in Reqs :
             /\ ResetDeletes(q)
             /\ FingerprintPair(req[q].fver) # FingerprintPair(req[r].fver) ]_vars

\* The numbers of the content versions whose fingerprints are the pair p.
VersionsOf(p) == {v \in 1..MaxVer : FingerprintPair(v) = p}

\* C19: no store write replaces the stored metadata of a content version by
\* the metadata of an older version.
C19_MetadataNeverRegresses ==
  [][ \A old \in StoredPairs : \A new \in StoredPairs' :
        \A n \in VersionsOf(old) : \A m \in VersionsOf(new) : m >= n ]_vars

\* The request wrote its vote and the tally read that follows failed.
TallyFailed(r) ==
  /\ Answered(r)
  /\ req[r].resp = ErrorResp(500, "Results fetch failed", "unavailable")

\* C20: when the tally read of a vote request fails after its insert, the
\* request is answered 5xx and the failing step leaves the ledger as it is;
\* while the inserted vote is in the ledger, an existence check made after
\* that response for the same voter rejects the request as duplicate (unless
\* the check itself fails).
C20_PostInsertFailureKeepsVote ==
  [][ /\ \A r \in Reqs :
           (req[r].pc = "tally" /\ TallyFailed(r)')
           => /\ req'[r].resp.status >= 500
              /\ Wrote(r)
              /\ votes' = votes
      /\ \A r1, r2 \in Reqs :
           ( /\ TallyFailed(r1)
             /\ OwnVote(r1) \in votes
             /\ req[r2].pc = "check"
             /\ req[r2].body.fingerprint = req[r1].body.fingerprint
             /\ req'[r2].pc # "check" )
           => RejectedDuplicate(r2)' \/ StoreFailure(r2)' ]_vars

\* C20 witness: the tally read of a request failed, its vote is in the
\* ledger, and another vote request of that voter has been rejected as
\* duplicate without writing.
C20_Witness ==
  \E r1, r2 \in Reqs :
    /\ TallyFailed(r1)
    /\ OwnVote(r1) \in votes
    /\ RejectedDuplicate(r2)
    /\ req[r2].body.fingerprint = req[r1].body.fingerprint
    /\ req[r2].body.vote # req[r1].body.vote

====
